---- MODULE Spec2Model ----
(***************************************************************************)
(* Model of the strategy runner and the interactive process driver of      *)
(* dexlyn_bot.py: AdvancedDexlynTradingBot.run, AdvancedTradeExecutor.     *)
(* execute_strategy and AdvancedTradeExecutor.execute_order, preceded by   *)
(* the construction of the bot in main (ConfigManager.validate_configs),   *)
(* and of the order resolution of AdvancedTradingEngine                    *)
(* (create_order_parameters and the functions it calls).                   *)
(*                                                                         *)
(* Spec and FairSpec run whole strategies; LookupSpec runs strategies with *)
(* keys the tables do not know; ResolveSpec resolves one order out of a    *)
(* large set of order descriptions.                                        *)
(*                                                                         *)
(* The bot is single-threaded; pc is the position of that thread.  The     *)
(* external process and the operator (Ctrl-C) are the environment: every   *)
(* blocking call (time.sleep, child.expect, child.sendline, expect.spawn)  *)
(* is one step whose outcome is chosen among the outcomes the call has.    *)
(* An external interrupt is delivered while the thread is blocked in a     *)
(* sleep or in a pattern wait, where Python raises KeyboardInterrupt; it   *)
(* may arrive at any such call, any number of times.                       *)
(***************************************************************************)
EXTENDS Integers, Sequences, FiniteSets, TLC

\* ---------------------------------------------------------------- bounds
MaxOrders == 2
MaxCycles == 2
MaxAttempts == 2
\* cycles = -1 runs for ever; the model follows its first InfiniteCap cycles
InfiniteCap == 2
\* amounts (USD values, prices) are decimal numbers with AmountDigits
\* fractional digits, held as integers scaled by 10^AmountDigits
AmountDigits == 2

\* ------------------------------------------------- configuration tables
\* DEFAULT_WALLETS and DEFAULT_PAIRS: the keys get_wallet / get_pair know
WalletKeys == {"trader_1", "trader_2"}
PairKeys == {"ETH_USD", "BTC_USD"}
\* the keys of action_map in parse_action_flags
ActionKeys ==
    {"market_open_long", "market_open_short", "limit_open_long",
     "limit_open_short", "market_close_long", "market_close_short",
     "limit_close_long", "limit_close_short", "add_to_position",
     "add_collateral", "partial_close", "full_close", "custom"}
\* required_fields of create_custom_order
required_fields ==
    <<"size_units", "collateral_units", "price_units", "is_long",
      "is_increase", "is_market", "can_execute_above_price">>

\* --------------------------------------------------- order descriptions
\* An order description is a Python dict: a function whose domain is the
\* set of keys that are present.
\* a well-formed order with a pre-order delay ("Delayed Order Execution");
\* when its delay elapses it goes on exactly as an order without delay
DelayedClose ==
    [name |-> "Delayed", action |-> "market_close_long",
     pair |-> "ETH_USD", wallet |-> "trader_1", wait_before |-> 10]
\* an order without delay whose wallet key is in no table
UnknownWallet ==
    [name |-> "Ghost", action |-> "market_open_short",
     pair |-> "ETH_USD", wallet |-> "nobody"]
\* an order without the "name" key
Nameless ==
    [action |-> "market_open_long", pair |-> "ETH_USD", wallet |-> "trader_2"]
OrderPool == {DelayedClose, UnknownWallet, Nameless}

Has(d, k) == k \in DOMAIN d

\* dict.get(k, default)
get(d, k, default) == IF Has(d, k) THEN d[k] ELSE default

\* 10 ** n
RECURSIVE Pow10(_)
Pow10(n) == IF n = 0 THEN 1 ELSE 10 * Pow10(n - 1)

\* the decimal number units + hundredths / 100 as a scaled integer
Amount(units, hundredths) ==
    units * Pow10(AmountDigits) + hundredths * Pow10(AmountDigits - 2)

\* the keys of configs["network"] and of configs["strategies"]
NetworkKeys == {"testnet", "mainnet"}
StrategyKeys == {"basic_cycle", "fully_custom"}

\* the entry of configs["network"] the engine reads its precisions from.
\* network.json is the operator's to edit; the precisions used here are
\* small enough for every product to stay below 2^31 and differ from one
\* another, so that a precision taken from the wrong field shows.
network_config ==
    [size_decimals |-> 6, collateral_decimals |-> 5, price_decimals |-> 1]

\* configs["wallets"] and configs["pairs"]
wallets ==
    [trader_1 |-> [address |-> "0xyourownaddresshere",
                   profile |-> "your_profile_name"],
     trader_2 |-> [address |-> "yourownaddresshere",
                   profile |-> "your_profile_name"]]
pairs ==
    [ETH_USD |-> [type_arg |-> "ETH_USD",
                  default_size_usd |-> Amount(300, 0),
                  default_collateral_usd |-> Amount(3, 0),
                  default_price |-> Amount(3500, 0)],
     BTC_USD |-> [type_arg |-> "BTC_USD",
                  default_size_usd |-> Amount(300, 0),
                  default_collateral_usd |-> Amount(3, 0),
                  default_price |-> Amount(50000, 0)]]

\* sequences over S of length 0..n
SeqsUpTo(S, n) == UNION {[1..k -> S] : k \in 0..n}

VARIABLES
    cycles,                 \* run(cycles=...): -1 is infinite
    orders,                 \* strategy["orders"]
    confirmation_attempts,  \* configs["main"]["orders"]["confirmation_attempts"]
    network,                \* configs["main"]["network"]
    default_strategy,       \* configs["main"]["default_strategy"]
    auto_calculate_execution_guard, \* configs["main"]["orders"][...]
    pc,                     \* position of the (only) thread
    cycle_count,            \* run: cycle_count
    i,                      \* execute_strategy: enumerate index (1-based)
    success_count,          \* execute_strategy: success_count
    attempt,                \* execute_order: iterations of the confirmation loop done
    child,                  \* execute_order: the local child handle
    procs,                  \* spawned processes not yet closed
    result,                 \* value execute_order returns
    exc,                    \* exception propagating out of execute_order
    order_params,           \* execute_order: the local order_params
    resolve_error,          \* what the resolution of this order raised
    waited,                 \* seconds of pre-order delay this order has slept
    output,                 \* execute_order: the local output (child.before)
    sent,                   \* arguments of the sendline calls of this order
    outcome,                \* how the current order ended
    raisedIn,               \* phases of this order in which a call raised
    invoked,                \* execute_order calls so far: <<cycle, index>>
    failed,                 \* indices of this cycle's orders that returned False
    orderSleeps,            \* inter-order sleeps completed in this cycle
    cycleSleeps,            \* inter-cycle sleeps completed
    runOutcome              \* how run ended

vars ==
    <<cycles, orders, confirmation_attempts, pc, cycle_count, i,
      success_count, attempt, child, procs, result, exc, sent, outcome,
      raisedIn, invoked, failed, orderSleeps, cycleSleeps, runOutcome,
      network, default_strategy, auto_calculate_execution_guard,
      order_params, resolve_error, waited, output>>

inputs ==
    <<cycles, orders, confirmation_attempts, network, default_strategy,
      auto_calculate_execution_guard>>
runnerVars == <<cycle_count, i, success_count>>
orderVars ==
    <<attempt, child, procs, result, exc, sent, outcome, raisedIn,
      order_params, resolve_error, waited, output>>
logVars == <<invoked, failed, orderSleeps, cycleSleeps>>

Init ==
    /\ cycles \in (-2)..MaxCycles
    /\ orders \in SeqsUpTo(OrderPool, MaxOrders)
    /\ confirmation_attempts \in 0..MaxAttempts
    /\ network \in {"testnet", "devnet"}
    /\ default_strategy \in {"basic_cycle", "retired"}
    /\ auto_calculate_execution_guard = TRUE
    /\ pc = "main"
    /\ cycle_count = 0
    /\ i = 0
    /\ success_count = 0
    /\ attempt = 0
    /\ child = "unbound"
    /\ procs = 0
    /\ result = "none"
    /\ exc = "none"
    /\ sent = <<>>
    /\ outcome = "none"
    /\ raisedIn = {}
    /\ order_params = <<>>
    /\ resolve_error = <<>>
    /\ waited = 0
    /\ output = <<>>
    /\ invoked = <<>>
    /\ failed = {}
    /\ orderSleeps = 0
    /\ cycleSleeps = 0
    /\ runOutcome = "running"

\* -------------------------------------------------------------- startup
\* variant: only the network is validated
validate_configs_raises_network_only == network \notin NetworkKeys

\* validate_configs raises ValueError
validate_configs_raises ==
    \/ network \notin NetworkKeys
    \/ default_strategy \notin StrategyKeys

\* AdvancedTradingEngine.__init__ raises KeyError (get_network_config)
AdvancedTradingEngine_init_raises == network \notin NetworkKeys

\* main: the construction of the bot (load_all_configs with its
\* validate_configs, then the engine) inside main's try; an Exception is
\* logged and the process exits with status 1
main ==
    /\ pc = "main"
    /\ IF validate_configs_raises \/ AdvancedTradingEngine_init_raises
       THEN /\ pc' = "done"
            /\ runOutcome' = "exit1"
       ELSE /\ pc' = "run_start"
            /\ UNCHANGED runOutcome
    /\ UNCHANGED <<inputs, runnerVars, orderVars, logVars>>

\* run, before its try: the strategy is looked up by the name given on the
\* command line or else by the default name; a KeyError leaves run and is
\* caught by main
run_start ==
    /\ pc = "run_start"
    /\ \E strategy_arg \in {"None", "basic_cycle"} :
          LET strategy_name == IF strategy_arg = "None"
                               THEN default_strategy ELSE strategy_arg
          IN  IF strategy_name \in StrategyKeys
              THEN /\ pc' = "run_while"
                   /\ UNCHANGED runOutcome
              ELSE /\ pc' = "done"
                   /\ runOutcome' = "exit1"
    /\ UNCHANGED <<inputs, runnerVars, orderVars, logVars>>

\* ------------------------------------------------------------------ run
\* variant: the loop test written with <= instead of <
MoreCycles_inclusive == cycles = -1 \/ cycle_count <= cycles

\* the loop condition of run, used at the loop head and before the sleep
MoreCycles == cycles = -1 \/ cycle_count < cycles

\* run: the while test; a new cycle enters execute_strategy
run_while ==
    /\ pc = "run_while"
    /\ IF MoreCycles
       THEN /\ cycles = -1 => cycle_count < InfiniteCap
            /\ cycle_count' = cycle_count + 1
            /\ i' = 0
            /\ success_count' = 0
            /\ failed' = {}
            /\ orderSleeps' = 0
            /\ pc' = "es_for"
            /\ UNCHANGED runOutcome
       ELSE /\ pc' = "done"
            /\ runOutcome' = "returned"
            /\ UNCHANGED <<cycle_count, i, success_count, failed, orderSleeps>>
    /\ UNCHANGED <<inputs, orderVars, invoked, cycleSleeps>>


\* ----------------------------------------------------- order resolution
\* An exception is the tuple of its class and the parts of its message;
\* <<>> stands for "nothing was raised".
\* d[k] of a config table whose keys are Keys, for the key o[k]
lookup_error(o, k, Keys) ==
    IF ~Has(o, k) THEN <<"KeyError", k>>
    ELSE IF o[k] \notin Keys THEN <<"KeyError", o[k]>>
    ELSE <<>>

\* the first exception of a sequence of steps
first_error(errors) ==
    LET raised == {k \in 1..Len(errors) : errors[k] # <<>>}
    IN  IF raised = {} THEN <<>>
        ELSE errors[CHOOSE k \in raised : \A m \in raised : k <= m]

\* variant: the loop over required_fields reports the last missing field
missing_field_error_last(custom_params) ==
    LET missing == {k \in 1..Len(required_fields) :
                       ~Has(custom_params, required_fields[k])}
    IN  IF missing = {} THEN <<>>
        ELSE <<"ValueError", "Custom order missing required field",
               required_fields[CHOOSE k \in missing :
                                   \A m \in missing : m <= k]>>

\* the loop over required_fields: raises for the first field the block
\* does not have
missing_field_error(custom_params) ==
    first_error([k \in 1..Len(required_fields) |->
        IF Has(custom_params, required_fields[k]) THEN <<>>
        ELSE <<"ValueError", "Custom order missing required field",
               required_fields[k]>>])

\* what create_custom_order raises for this order
create_custom_order_error(o) ==
    first_error(<<lookup_error(o, "wallet", WalletKeys),
                  missing_field_error(o.custom_parameters),
                  IF Has(o, "name") THEN <<>> ELSE <<"KeyError", "name">>>>)

\* what create_standard_order raises for this order
create_standard_order_error(o) ==
    first_error(<<lookup_error(o, "pair", PairKeys),
                  lookup_error(o, "wallet", WalletKeys),
                  IF ~Has(o, "action") THEN <<"KeyError", "action">>
                  ELSE IF o.action \notin ActionKeys
                       THEN <<"ValueError", "Unknown action", o.action>>
                       ELSE <<>>,
                  IF Has(o, "name") THEN <<>> ELSE <<"KeyError", "name">>>>)

\* what create_order_parameters raises for this order
create_order_parameters_error(o) ==
    IF Has(o, "custom_parameters")
    THEN create_custom_order_error(o)
    ELSE create_standard_order_error(o)

\* what the lookups execute_order makes itself raise for this order
build_command_error(o) ==
    first_error(<<lookup_error(o, "wallet", WalletKeys),
                  lookup_error(o, "pair", PairKeys)>>)

\* create_custom_order raises (KeyError / ValueError) for this order
create_custom_order_raises(o) == create_custom_order_error(o) # <<>>

\* create_standard_order raises (KeyError / ValueError) for this order
create_standard_order_raises(o) == create_standard_order_error(o) # <<>>

\* create_order_parameters raises for this order
create_order_parameters_raises(o) ==
    IF Has(o, "custom_parameters")
    THEN create_custom_order_raises(o)
    ELSE create_standard_order_raises(o)

\* the lookups execute_order makes itself to build the command line
build_command_raises(o) == build_command_error(o) # <<>>

\* int(x) for the rational x = num / den, den > 0: truncation toward zero
int(num, den) ==
    IF num >= 0 THEN num \div den ELSE -((-num) \div den)

\* amount * 10 ** decimals is a product of doubles. For the amounts of
\* this model it is the exact product except for 2.01, which is no double:
\* 2.01 * 10 ** 5 is 200999.99999999997 and 2.01 * 10 ** 6 is
\* 2009999.9999999998, while 2.01 * 10 ** 1 is 20.1 (0, 1.25, 1.5, 3,
\* 100, 300, 3500 and 50000 are doubles and their products are exact).
product_falls_short(amount, decimals) ==
    amount = Amount(2, 1) /\ decimals \in {5, 6}

\* int(amount * 10 ** decimals) for a scaled amount
to_units(amount, decimals) ==
    LET product ==
            IF decimals >= AmountDigits
            THEN amount * Pow10(decimals - AmountDigits)
            ELSE int(amount, Pow10(AmountDigits - decimals))
    IN  IF product_falls_short(amount, decimals)
        THEN product - 1 ELSE product

\* usd_to_units(usd_amount, decimal_type)
usd_to_units(usd_amount, decimal_type) ==
    to_units(usd_amount,
             IF decimal_type = "size" THEN network_config.size_decimals
             ELSE network_config.collateral_decimals)

price_to_units(price) == to_units(price, network_config.price_decimals)

\* variant: the USD field is looked at before the exact-unit field
get_size_units_usd_first(order_config, pair_config) ==
    IF Has(order_config, "size_usd")
    THEN usd_to_units(order_config.size_usd, "size")
    ELSE IF Has(order_config, "size_units") THEN order_config.size_units
         ELSE usd_to_units(pair_config.default_size_usd, "size")

get_size_units(order_config, pair_config) ==
    IF Has(order_config, "size_units") THEN order_config.size_units
    ELSE IF Has(order_config, "size_usd")
         THEN usd_to_units(order_config.size_usd, "size")
         ELSE usd_to_units(pair_config.default_size_usd, "size")

get_collateral_units(order_config, pair_config) ==
    IF Has(order_config, "collateral_units")
    THEN order_config.collateral_units
    ELSE IF Has(order_config, "collateral_usd")
         THEN usd_to_units(order_config.collateral_usd, "collateral")
         ELSE usd_to_units(pair_config.default_collateral_usd, "collateral")

get_price_units(order_config, pair_config) ==
    IF Has(order_config, "price_units") THEN order_config.price_units
    ELSE IF Has(order_config, "price")
         THEN price_to_units(order_config.price)
         ELSE price_to_units(pair_config.default_price)

get_stop_loss_units(order_config) ==
    IF Has(order_config, "stop_loss_units") THEN order_config.stop_loss_units
    ELSE IF Has(order_config, "stop_loss") /\ order_config.stop_loss > 0
         THEN price_to_units(order_config.stop_loss)
         ELSE 0

get_take_profit_units(order_config) ==
    IF Has(order_config, "take_profit_units")
    THEN order_config.take_profit_units
    ELSE IF Has(order_config, "take_profit") /\ order_config.take_profit > 0
         THEN price_to_units(order_config.take_profit)
         ELSE 0

\* action_map of parse_action_flags, built for this order description
action_map(order_config) ==
    [a \in ActionKeys |->
        CASE a = "market_open_long"   -> <<TRUE, TRUE, TRUE>>
          [] a = "market_open_short"  -> <<FALSE, TRUE, TRUE>>
          [] a = "limit_open_long"    -> <<TRUE, TRUE, FALSE>>
          [] a = "limit_open_short"   -> <<FALSE, TRUE, FALSE>>
          [] a = "market_close_long"  -> <<TRUE, FALSE, TRUE>>
          [] a = "market_close_short" -> <<FALSE, FALSE, TRUE>>
          [] a = "limit_close_long"   -> <<TRUE, FALSE, FALSE>>
          [] a = "limit_close_short"  -> <<FALSE, FALSE, FALSE>>
          [] a = "add_to_position" ->
                 <<get(order_config, "is_long", TRUE), TRUE,
                   get(order_config, "is_market", FALSE)>>
          [] a = "add_collateral" ->
                 <<get(order_config, "is_long", TRUE), TRUE, TRUE>>
          [] a = "partial_close" ->
                 <<get(order_config, "is_long", TRUE), FALSE,
                   get(order_config, "is_market", FALSE)>>
          [] a = "full_close" ->
                 <<get(order_config, "is_long", TRUE), FALSE,
                   get(order_config, "is_market", TRUE)>>
          [] a = "custom" ->
                 <<get(order_config, "is_long", TRUE),
                   get(order_config, "is_increase", TRUE),
                   get(order_config, "is_market", FALSE)>>]

\* variant: the action is not looked up, the flags are the overrides or
\* else the defaults of "custom"
parse_action_flags_ignores_action(action, order_config) ==
    <<get(order_config, "is_long", TRUE),
      get(order_config, "is_increase", TRUE),
      get(order_config, "is_market", FALSE)>>

\* variant: the triple of the table is returned without the overrides
parse_action_flags_no_override(action, order_config) ==
    action_map(order_config)[action]

\* parse_action_flags for an action of action_map: <<is_long, is_increase,
\* is_market>>
parse_action_flags(action, order_config) ==
    LET defaults == action_map(order_config)[action]
    IN  <<get(order_config, "is_long", defaults[1]),
          get(order_config, "is_increase", defaults[2]),
          get(order_config, "is_market", defaults[3])>>

\* variant: the guard follows the direction alone
calculate_execution_guard_by_direction(is_long, is_increase, is_market) ==
    ~is_long

calculate_execution_guard(is_long, is_increase, is_market) ==
    IF is_increase /\ is_long THEN FALSE
    ELSE IF is_increase /\ ~is_long THEN TRUE
    ELSE IF ~is_increase /\ is_long THEN TRUE
    ELSE FALSE

\* str(b).lower() for a bool
bool_str(b) == IF b THEN "true" ELSE "false"

\* the argument f"{type}:{value}" as the pair <<type, value>>
u64(n) == <<"u64", n>>
bool(b) == <<"bool", bool_str(b)>>
address(a) == <<"address", a>>

\* variant: an exact-unit field at the top level of the order wins over
\* the field of the raw block
create_custom_order_top_level_first(order_config) ==
    LET custom_params == order_config.custom_parameters
        wallet == wallets[order_config.wallet]
    IN  <<address(wallet.address),
          u64(get(order_config, "size_units", custom_params.size_units)),
          u64(custom_params.collateral_units),
          u64(custom_params.price_units),
          bool(custom_params.is_long),
          bool(custom_params.is_increase),
          bool(custom_params.is_market),
          u64(get(custom_params, "stop_loss_units", 0)),
          u64(get(custom_params, "take_profit_units", 0)),
          bool(custom_params.can_execute_above_price),
          address("0x0")>>

\* create_custom_order, for an order it does not raise on
create_custom_order(order_config) ==
    LET custom_params == order_config.custom_parameters
        wallet == wallets[order_config.wallet]
    IN  <<address(wallet.address),
          u64(custom_params.size_units),
          u64(custom_params.collateral_units),
          u64(custom_params.price_units),
          bool(custom_params.is_long),
          bool(custom_params.is_increase),
          bool(custom_params.is_market),
          u64(get(custom_params, "stop_loss_units", 0)),
          u64(get(custom_params, "take_profit_units", 0)),
          bool(custom_params.can_execute_above_price),
          address("0x0")>>

\* variant: the calculated guard, when enabled, wins over the field of
\* the order
can_execute_above_auto_first(order_config, is_long, is_increase, is_market) ==
    IF auto_calculate_execution_guard
    THEN calculate_execution_guard(is_long, is_increase, is_market)
    ELSE IF Has(order_config, "can_execute_above_price")
         THEN order_config.can_execute_above_price
         ELSE TRUE

\* create_standard_order: the if / elif / else that sets can_execute_above
can_execute_above(order_config, is_long, is_increase, is_market) ==
    IF Has(order_config, "can_execute_above_price")
    THEN order_config.can_execute_above_price
    ELSE IF auto_calculate_execution_guard
         THEN calculate_execution_guard(is_long, is_increase, is_market)
         ELSE TRUE

\* create_standard_order, for an order it does not raise on
create_standard_order(order_config) ==
    LET pair_config == pairs[order_config.pair]
        wallet == wallets[order_config.wallet]
        flags == parse_action_flags(order_config.action, order_config)
        is_long == flags[1]
        is_increase == flags[2]
        is_market == flags[3]
    IN  <<address(wallet.address),
          u64(get_size_units(order_config, pair_config)),
          u64(get_collateral_units(order_config, pair_config)),
          u64(get_price_units(order_config, pair_config)),
          bool(is_long),
          bool(is_increase),
          bool(is_market),
          u64(get_stop_loss_units(order_config)),
          u64(get_take_profit_units(order_config)),
          bool(can_execute_above(order_config, is_long, is_increase,
                                 is_market)),
          address("0x0")>>

create_order_parameters(order_config) ==
    IF Has(order_config, "custom_parameters")
    THEN create_custom_order(order_config)
    ELSE create_standard_order(order_config)

\* ------------------------------------------------------ execute_strategy
\* the order execute_order is working on
CurrentOrder == orders[i]

\* variant: the error of an order is logged inside the for loop, which
\* goes on with the next order
execute_strategy_for_goes_on ==
    /\ pc = "es_for"
    /\ IF i < Len(orders)
       THEN /\ i' = i + 1
            /\ IF Has(orders[i + 1], "name")
               THEN /\ pc' = "eo_wait_before"
                    /\ invoked' = Append(invoked, <<cycle_count, i + 1>>)
               ELSE /\ pc' = "es_for"
                    /\ UNCHANGED invoked
       ELSE /\ pc' = "run_after"
            /\ UNCHANGED <<i, invoked>>
    /\ UNCHANGED <<inputs, cycle_count, success_count, orderVars,
                   failed, orderSleeps, cycleSleeps, runOutcome>>

\* the for loop: next order, or the end of the list
execute_strategy_for ==
    /\ pc = "es_for"
    /\ IF i < Len(orders)
       THEN /\ i' = i + 1
            /\ IF Has(orders[i + 1], "name")
               THEN \* execute_order(order) is entered
                    /\ pc' = "eo_wait_before"
                    /\ invoked' = Append(invoked, <<cycle_count, i + 1>>)
                    /\ UNCHANGED runOutcome
               ELSE \* order['name'] raises KeyError, caught by run
                    /\ pc' = "done"
                    /\ runOutcome' = "halted"
                    /\ UNCHANGED invoked
       ELSE /\ pc' = "run_after"
            /\ UNCHANGED <<i, invoked, runOutcome>>
    /\ UNCHANGED <<inputs, cycle_count, success_count, orderVars,
                   failed, orderSleeps, cycleSleeps>>

\* variant: a failed order breaks out of the for loop
execute_strategy_tally_break ==
    /\ pc = "es_tally"
    /\ IF exc # "none"
       THEN /\ pc' = "done"
            /\ runOutcome' = IF exc = "KeyboardInterrupt"
                             THEN "stopped" ELSE "halted"
            /\ UNCHANGED <<success_count, failed>>
       ELSE /\ success_count' =
                   IF result = "True" THEN success_count + 1 ELSE success_count
            /\ failed' = IF result = "True" THEN failed ELSE failed \cup {i}
            /\ pc' = IF result # "True" THEN "run_after"
                     ELSE IF i < Len(orders) THEN "es_sleep" ELSE "es_for"
            /\ UNCHANGED runOutcome
    /\ attempt' = 0
    /\ child' = "unbound"
    /\ result' = "none"
    /\ exc' = "none"
    /\ sent' = <<>>
    /\ outcome' = "none"
    /\ raisedIn' = {}
    /\ order_params' = <<>>
    /\ resolve_error' = <<>>
    /\ waited' = 0
    /\ output' = <<>>
    /\ UNCHANGED <<inputs, cycle_count, i, procs, invoked,
                   orderSleeps, cycleSleeps>>

\* variant: the sleep is taken after the last order too
execute_strategy_tally_always_sleep ==
    /\ pc = "es_tally"
    /\ IF exc # "none"
       THEN /\ pc' = "done"
            /\ runOutcome' = IF exc = "KeyboardInterrupt"
                             THEN "stopped" ELSE "halted"
            /\ UNCHANGED <<success_count, failed>>
       ELSE /\ success_count' =
                   IF result = "True" THEN success_count + 1 ELSE success_count
            /\ failed' = IF result = "True" THEN failed ELSE failed \cup {i}
            /\ pc' = "es_sleep"
            /\ UNCHANGED runOutcome
    /\ attempt' = 0
    /\ child' = "unbound"
    /\ result' = "none"
    /\ exc' = "none"
    /\ sent' = <<>>
    /\ outcome' = "none"
    /\ raisedIn' = {}
    /\ order_params' = <<>>
    /\ resolve_error' = <<>>
    /\ waited' = 0
    /\ output' = <<>>
    /\ UNCHANGED <<inputs, cycle_count, i, procs, invoked,
                   orderSleeps, cycleSleeps>>

\* execute_order has returned (or raised) and its locals are gone: tally,
\* then sleep or loop
execute_strategy_tally ==
    /\ pc = "es_tally"
    /\ IF exc # "none"
       THEN \* the exception leaves execute_strategy and is caught by run
            /\ pc' = "done"
            /\ runOutcome' = IF exc = "KeyboardInterrupt"
                             THEN "stopped" ELSE "halted"
            /\ UNCHANGED <<success_count, failed>>
       ELSE /\ success_count' =
                   IF result = "True" THEN success_count + 1 ELSE success_count
            /\ failed' = IF result = "True" THEN failed ELSE failed \cup {i}
            /\ pc' = IF i < Len(orders) THEN "es_sleep" ELSE "es_for"
            /\ UNCHANGED runOutcome
    /\ attempt' = 0
    /\ child' = "unbound"
    /\ result' = "none"
    /\ exc' = "none"
    /\ sent' = <<>>
    /\ outcome' = "none"
    /\ raisedIn' = {}
    /\ order_params' = <<>>
    /\ resolve_error' = <<>>
    /\ waited' = 0
    /\ output' = <<>>
    /\ UNCHANGED <<inputs, cycle_count, i, procs, invoked,
                   orderSleeps, cycleSleeps>>

\* time.sleep(sleep_between_orders)
execute_strategy_sleep ==
    /\ pc = "es_sleep"
    /\ \/ /\ orderSleeps' = orderSleeps + 1
          /\ pc' = "es_for"
          /\ UNCHANGED runOutcome
       \/ \* Ctrl-C during the sleep: caught by run
          /\ pc' = "done"
          /\ runOutcome' = "stopped"
          /\ UNCHANGED orderSleeps
    /\ UNCHANGED <<inputs, runnerVars, orderVars, invoked, failed,
                   cycleSleeps>>

\* variant: the inter-cycle sleep is taken after the final cycle too
run_after_always_sleep ==
    /\ pc = "run_after"
    /\ pc' = "run_sleep"
    /\ UNCHANGED <<inputs, runnerVars, orderVars, logVars,
                   runOutcome>>

\* run: back from execute_strategy, sleep unless this was the last cycle
run_after ==
    /\ pc = "run_after"
    /\ pc' = IF MoreCycles THEN "run_sleep" ELSE "run_while"
    /\ UNCHANGED <<inputs, runnerVars, orderVars, logVars,
                   runOutcome>>

\* time.sleep(sleep_between_cycles)
run_sleep ==
    /\ pc = "run_sleep"
    /\ \/ /\ cycleSleeps' = cycleSleeps + 1
          /\ pc' = "run_while"
          /\ UNCHANGED runOutcome
       \/ \* Ctrl-C during the sleep: caught by run
          /\ pc' = "done"
          /\ runOutcome' = "stopped"
          /\ UNCHANGED cycleSleeps
    /\ UNCHANGED <<inputs, runnerVars, orderVars, invoked, failed,
                   orderSleeps>>


\* --------------------------------------------------------- execute_order
\* the value of the environment variable SUPRA_CLI_PASSWORD, which main
\* has found set
SUPRA_CLI_PASSWORD == "SECRET"

\* variant: the executor does not read the environment and keeps the
\* default of os.environ.get
password_default == ""

\* self.password, the configured secret
password == SUPRA_CLI_PASSWORD

\* os.linesep
linesep == "\n"

\* what the sendline calls with these arguments wrote to the process:
\* each argument followed by the line separator
RECURSIVE written(_)
written(args) ==
    IF args = <<>> THEN <<>>
    ELSE <<Head(args), linesep>> \o written(Tail(args))

\* variant: the except clause logs the error but returns nothing
Caught_returns_none(phase, how) ==
    /\ result' = "none"
    /\ outcome' = how
    /\ raisedIn' = raisedIn \cup {<<phase, "Exception">>}
    /\ pc' = "eo_finally"

\* a call inside the outer try raised an Exception: the except clause
\* makes the result False and the finally clause runs next
Caught(phase, how) ==
    /\ result' = "False"
    /\ outcome' = how
    /\ raisedIn' = raisedIn \cup {<<phase, "Exception">>}
    /\ pc' = "eo_finally"

\* KeyboardInterrupt inside the outer try: except Exception does not
\* catch it, the finally clause runs and it leaves execute_order
Interrupted(phase) ==
    /\ exc' = "KeyboardInterrupt"
    /\ outcome' = "Interrupted"
    /\ raisedIn' = raisedIn \cup {<<phase, "KeyboardInterrupt">>}
    /\ pc' = "eo_finally"

\* variant: wait_before is read but the order does not sleep
execute_order_wait_before_no_sleep ==
    /\ pc = "eo_wait_before"
    /\ pc' = "eo_resolve"
    /\ UNCHANGED <<inputs, runnerVars, orderVars, logVars, runOutcome>>

\* the optional pre-order delay: time.sleep(wait_before) returns after
\* wait_before seconds, or is cut by Ctrl-C
execute_order_wait_before ==
    /\ pc = "eo_wait_before"
    /\ LET wait_before == IF Has(CurrentOrder, "wait_before")
                          THEN CurrentOrder.wait_before ELSE 0
       IN  IF wait_before > 0
           THEN \/ /\ waited' = wait_before
                   /\ pc' = "eo_resolve"
                   /\ UNCHANGED <<exc, outcome, raisedIn>>
                \/ /\ Interrupted("wait_before")
                   /\ UNCHANGED waited
           ELSE /\ pc' = "eo_resolve"
                /\ UNCHANGED <<exc, outcome, raisedIn, waited>>
    /\ UNCHANGED <<inputs, runnerVars, attempt, child, procs, result, sent,
                   order_params, resolve_error, output, logVars, runOutcome>>

\* variant: keys the tables do not know are passed on to the command
\* line as they are
execute_order_resolve_no_lookup ==
    /\ pc = "eo_resolve"
    /\ IF create_order_parameters_raises(CurrentOrder)
          /\ ~build_command_raises(CurrentOrder)
       THEN /\ Caught("resolve", "Failed")
            /\ resolve_error' = create_order_parameters_error(CurrentOrder)
            /\ UNCHANGED order_params
       ELSE /\ order_params' =
                   IF build_command_raises(CurrentOrder)
                   THEN <<>> ELSE create_order_parameters(CurrentOrder)
            /\ pc' = "eo_spawn"
            /\ UNCHANGED resolve_error
            /\ UNCHANGED <<result, outcome, raisedIn>>
    /\ UNCHANGED <<inputs, runnerVars, attempt, child, procs, exc,
                   sent, waited, output, logVars, runOutcome>>

\* variant: create_order_parameters is called outside the try block, so
\* what it raises leaves execute_order
execute_order_resolve_outside_try ==
    /\ pc = "eo_resolve"
    /\ IF \/ create_order_parameters_raises(CurrentOrder)
          \/ build_command_raises(CurrentOrder)
       THEN /\ exc' = "Exception"
            /\ outcome' = "Failed"
            /\ raisedIn' = raisedIn \cup {<<"resolve", "Exception">>}
            /\ pc' = "eo_finally"
            /\ resolve_error' =
                   first_error(<<create_order_parameters_error(CurrentOrder),
                                 build_command_error(CurrentOrder)>>)
            /\ UNCHANGED <<order_params, result>>
       ELSE /\ order_params' = create_order_parameters(CurrentOrder)
            /\ pc' = "eo_spawn"
            /\ UNCHANGED <<result, exc, outcome, raisedIn, resolve_error>>
    /\ UNCHANGED <<inputs, runnerVars, attempt, child, procs,
                   sent, waited, output, logVars, runOutcome>>

\* create_order_parameters and the assembly of the command line
execute_order_resolve ==
    /\ pc = "eo_resolve"
    /\ IF \/ create_order_parameters_raises(CurrentOrder)
          \/ build_command_raises(CurrentOrder)
       THEN /\ Caught("resolve", "Failed")
            /\ resolve_error' =
                   first_error(<<create_order_parameters_error(CurrentOrder),
                                 build_command_error(CurrentOrder)>>)
            /\ UNCHANGED order_params
       ELSE /\ order_params' = create_order_parameters(CurrentOrder)
            /\ pc' = "eo_spawn"
            /\ UNCHANGED resolve_error
            /\ UNCHANGED <<result, outcome, raisedIn>>
    /\ UNCHANGED <<inputs, runnerVars, attempt, child, procs, exc,
                   sent, waited, output, logVars, runOutcome>>

\* expect.spawn(cmd_str, ...)
execute_order_spawn ==
    /\ pc = "eo_spawn"
    /\ \/ /\ child' = "running"
          /\ procs' = procs + 1
          /\ pc' = "eo_secret"
          /\ UNCHANGED <<result, outcome, raisedIn>>
       \/ /\ Caught("spawn", "Failed")
          /\ UNCHANGED <<child, procs>>
    /\ UNCHANGED <<inputs, runnerVars, attempt, exc, sent, order_params,
                   resolve_error, waited,
                   output, logVars, runOutcome>>

\* variant: the secret wait is outside the inner try, so its timeout is
\* caught by the outer except like the completion timeout
execute_order_secret_timeout_fails ==
    /\ pc = "eo_secret"
    /\ \/ /\ sent' = sent \o <<password, "\n">>
          /\ pc' = "eo_confirm"
          /\ UNCHANGED <<child, raisedIn, result, outcome>>
       \/ /\ raisedIn' = raisedIn \cup {<<"send", "Exception">>}
          /\ pc' = "eo_confirm"
          /\ UNCHANGED <<child, sent, result, outcome>>
       \/ /\ sent' = sent \o <<password>>
          /\ raisedIn' = raisedIn \cup {<<"send", "Exception">>}
          /\ pc' = "eo_confirm"
          /\ UNCHANGED <<child, result, outcome>>
       \/ /\ raisedIn' = raisedIn \cup {<<"secret", "TIMEOUT">>}
          /\ result' = "False"
          /\ outcome' = "TimedOut"
          /\ pc' = "eo_finally"
          /\ UNCHANGED <<child, sent>>
       \/ /\ child' = "exited"
          /\ raisedIn' = raisedIn \cup {<<"secret", "EOF">>}
          /\ pc' = "eo_confirm"
          /\ UNCHANGED <<sent, result, outcome>>
       \/ /\ raisedIn' = raisedIn \cup {<<"secret", "KeyboardInterrupt">>}
          /\ pc' = "eo_confirm"
          /\ UNCHANGED <<child, sent, result, outcome>>
    /\ UNCHANGED <<inputs, runnerVars, attempt, procs, exc,
                   order_params, resolve_error, waited, output, logVars, runOutcome>>

\* variant: the secret is sent when the wait times out, too
execute_order_secret_blind ==
    /\ pc = "eo_secret"
    /\ pc' = "eo_confirm"
    /\ \/ \* a secret prompt matched; both sends succeed
          /\ sent' = sent \o <<password, "\n">>
          /\ UNCHANGED <<child, raisedIn>>
       \/ \* matched; sendline(self.password) raises
          /\ raisedIn' = raisedIn \cup {<<"send", "Exception">>}
          /\ UNCHANGED <<child, sent>>
       \/ \* matched; sendline("\n") raises
          /\ sent' = sent \o <<password>>
          /\ raisedIn' = raisedIn \cup {<<"send", "Exception">>}
          /\ UNCHANGED child
       \/ \* no prompt within the timeout
          /\ raisedIn' = raisedIn \cup {<<"secret", "TIMEOUT">>}
          /\ sent' = sent \o <<password, "\n">>
          /\ UNCHANGED child
       \/ \* the process ended
          /\ child' = "exited"
          /\ raisedIn' = raisedIn \cup {<<"secret", "EOF">>}
          /\ UNCHANGED sent
       \/ \* Ctrl-C during the wait: swallowed by the bare except
          /\ raisedIn' = raisedIn \cup {<<"secret", "KeyboardInterrupt">>}
          /\ UNCHANGED <<child, sent>>
    /\ UNCHANGED <<inputs, runnerVars, attempt, procs, result, exc, outcome,
                   order_params, resolve_error, waited, output, logVars, runOutcome>>

\* the secret phase: one pattern wait inside a bare try/except that
\* swallows whatever the wait or the two sendline calls raise
execute_order_secret ==
    /\ pc = "eo_secret"
    /\ pc' = "eo_confirm"
    /\ \/ \* a secret prompt matched; both sends succeed
          /\ sent' = sent \o <<password, "\n">>
          /\ UNCHANGED <<child, raisedIn>>
       \/ \* matched; sendline(self.password) raises
          /\ raisedIn' = raisedIn \cup {<<"send", "Exception">>}
          /\ UNCHANGED <<child, sent>>
       \/ \* matched; sendline("\n") raises
          /\ sent' = sent \o <<password>>
          /\ raisedIn' = raisedIn \cup {<<"send", "Exception">>}
          /\ UNCHANGED child
       \/ \* no prompt within the timeout
          /\ raisedIn' = raisedIn \cup {<<"secret", "TIMEOUT">>}
          /\ UNCHANGED <<child, sent>>
       \/ \* the process ended
          /\ child' = "exited"
          /\ raisedIn' = raisedIn \cup {<<"secret", "EOF">>}
          /\ UNCHANGED sent
       \/ \* Ctrl-C during the wait: swallowed by the bare except
          /\ raisedIn' = raisedIn \cup {<<"secret", "KeyboardInterrupt">>}
          /\ UNCHANGED <<child, sent>>
    /\ UNCHANGED <<inputs, runnerVars, attempt, procs, result, exc, outcome,
                   order_params, resolve_error, waited, output, logVars, runOutcome>>

\* variant: a confirmation wait that times out is an error of the order
execute_order_confirm_timeout_fails ==
    /\ pc = "eo_confirm"
    /\ IF attempt < confirmation_attempts
       THEN /\ attempt' = attempt + 1
            /\ IF child = "exited"
               THEN /\ raisedIn' = raisedIn \cup {<<"confirm", "EOF">>}
                    /\ pc' = "eo_confirm"
                    /\ UNCHANGED <<child, sent, result, outcome>>
               ELSE \/ /\ sent' = Append(sent, "\n")
                       /\ pc' = "eo_confirm"
                       /\ UNCHANGED <<child, raisedIn, result, outcome>>
                    \/ /\ raisedIn' = raisedIn \cup {<<"send", "Exception">>}
                       /\ pc' = "eo_confirm"
                       /\ UNCHANGED <<child, sent, result, outcome>>
                    \/ /\ raisedIn' = raisedIn \cup {<<"confirm", "TIMEOUT">>}
                       /\ result' = "False"
                       /\ outcome' = "TimedOut"
                       /\ pc' = "eo_finally"
                       /\ UNCHANGED <<child, sent>>
                    \/ /\ child' = "exited"
                       /\ raisedIn' = raisedIn \cup {<<"confirm", "EOF">>}
                       /\ pc' = "eo_confirm"
                       /\ UNCHANGED <<sent, result, outcome>>
                    \/ /\ raisedIn' =
                              raisedIn \cup {<<"confirm", "KeyboardInterrupt">>}
                       /\ pc' = "eo_confirm"
                       /\ UNCHANGED <<child, sent, result, outcome>>
       ELSE /\ pc' = "eo_completion"
            /\ UNCHANGED <<attempt, child, sent, raisedIn, result, outcome>>
    /\ UNCHANGED <<inputs, runnerVars, procs, exc, order_params,
                   resolve_error, waited, output, logVars, runOutcome>>

\* variant: the confirmation loop is left at the first wait that matches
\* nothing
execute_order_confirm_break ==
    /\ pc = "eo_confirm"
    /\ IF attempt < confirmation_attempts
       THEN /\ attempt' = attempt + 1
            /\ IF child = "exited"
               THEN /\ raisedIn' = raisedIn \cup {<<"confirm", "EOF">>}
                    /\ pc' = "eo_completion"
                    /\ UNCHANGED <<child, sent>>
               ELSE \/ /\ sent' = Append(sent, "\n")
                       /\ pc' = "eo_confirm"
                       /\ UNCHANGED <<child, raisedIn>>
                    \/ /\ raisedIn' = raisedIn \cup {<<"send", "Exception">>}
                       /\ pc' = "eo_confirm"
                       /\ UNCHANGED <<child, sent>>
                    \/ /\ raisedIn' = raisedIn \cup {<<"confirm", "TIMEOUT">>}
                       /\ pc' = "eo_completion"
                       /\ UNCHANGED <<child, sent>>
                    \/ /\ child' = "exited"
                       /\ raisedIn' = raisedIn \cup {<<"confirm", "EOF">>}
                       /\ pc' = "eo_completion"
                       /\ UNCHANGED sent
                    \/ /\ raisedIn' =
                              raisedIn \cup {<<"confirm", "KeyboardInterrupt">>}
                       /\ pc' = "eo_confirm"
                       /\ UNCHANGED <<child, sent>>
       ELSE /\ pc' = "eo_completion"
            /\ UNCHANGED <<attempt, child, sent, raisedIn>>
    /\ UNCHANGED <<inputs, runnerVars, procs, result, exc, outcome,
                   order_params, resolve_error, waited, output, logVars, runOutcome>>

\* one iteration of the confirmation loop, or the exit of the loop
execute_order_confirm ==
    /\ pc = "eo_confirm"
    /\ IF attempt < confirmation_attempts
       THEN /\ attempt' = attempt + 1
            /\ pc' = "eo_confirm"
            /\ IF child = "exited"
               THEN \* the wait raises EOF at once
                    /\ raisedIn' = raisedIn \cup {<<"confirm", "EOF">>}
                    /\ UNCHANGED <<child, sent>>
               ELSE \/ \* a confirmation prompt matched; the send succeeds
                       /\ sent' = Append(sent, "\n")
                       /\ UNCHANGED <<child, raisedIn>>
                    \/ \* matched; sendline raises
                       /\ raisedIn' = raisedIn \cup {<<"send", "Exception">>}
                       /\ UNCHANGED <<child, sent>>
                    \/ \* no prompt within the timeout
                       /\ raisedIn' = raisedIn \cup {<<"confirm", "TIMEOUT">>}
                       /\ UNCHANGED <<child, sent>>
                    \/ \* the process ended
                       /\ child' = "exited"
                       /\ raisedIn' = raisedIn \cup {<<"confirm", "EOF">>}
                       /\ UNCHANGED sent
                    \/ \* Ctrl-C during the wait: swallowed
                       /\ raisedIn' =
                              raisedIn \cup {<<"confirm", "KeyboardInterrupt">>}
                       /\ UNCHANGED <<child, sent>>
       ELSE /\ pc' = "eo_completion"
            /\ UNCHANGED <<attempt, child, sent, raisedIn>>
    /\ UNCHANGED <<inputs, runnerVars, procs, result, exc, outcome,
                   order_params, resolve_error, waited, output, logVars, runOutcome>>

\* what the process may have printed by the end of its output, as the
\* sequence of its words
Outputs ==
    {<<"Transaction", "SUCCESS">>, <<"order", "Executed">>,
     <<"Error:", "rejected">>}

\* str.lower() on the words of Outputs
lower(word) ==
    CASE word = "SUCCESS" -> "success"
      [] word = "Executed" -> "executed"
      [] word = "Transaction" -> "transaction"
      [] word = "Error:" -> "error:"
      [] OTHER -> word

\* "success" in output.lower() or "executed" in output.lower()
has_marker(out) ==
    \/ \E k \in DOMAIN out : lower(out[k]) = "success"
    \/ \E k \in DOMAIN out : lower(out[k]) = "executed"

\* variant: an output without a marker makes the order a failure
completed_result_marker_required(out) ==
    IF has_marker(out) THEN "True" ELSE "False"

\* the value returned once end of output was reached: both branches of
\* the marker test return True
completed_result(out) ==
    IF has_marker(out) THEN "True" ELSE "True"

\* variant: the completion wait is wrapped in try/except like the others
execute_order_completion_timeout_swallowed ==
    /\ pc = "eo_completion"
    /\ IF child = "exited"
       THEN /\ \E out \in Outputs :
                  /\ output' = out
                  /\ result' = completed_result(out)
            /\ outcome' = "Completed"
            /\ pc' = "eo_finally"
            /\ UNCHANGED <<child, exc, raisedIn>>
       ELSE \/ /\ child' = "exited"
               /\ \E out \in Outputs :
                     /\ output' = out
                     /\ result' = completed_result(out)
               /\ outcome' = "Completed"
               /\ pc' = "eo_finally"
               /\ UNCHANGED <<exc, raisedIn>>
            \/ /\ result' = "True"
               /\ outcome' = "TimedOut"
               /\ raisedIn' = raisedIn \cup {<<"completion", "TIMEOUT">>}
               /\ pc' = "eo_finally"
               /\ UNCHANGED <<child, exc, output>>
            \/ /\ Caught("completion", "Failed")
               /\ UNCHANGED <<child, exc, output>>
            \/ /\ Interrupted("completion")
               /\ UNCHANGED <<child, result, output>>
    /\ UNCHANGED <<inputs, runnerVars, attempt, procs, sent, order_params,
                   resolve_error, waited,
                   logVars, runOutcome>>

\* variant: the completion wait has no timeout (timeout=None) and returns
\* only when the process has ended
execute_order_completion_no_timeout ==
    /\ pc = "eo_completion"
    /\ child = "exited"
    /\ \E out \in Outputs :
          /\ output' = out
          /\ result' = completed_result(out)
    /\ outcome' = "Completed"
    /\ pc' = "eo_finally"
    /\ UNCHANGED <<child, exc, raisedIn>>
    /\ UNCHANGED <<inputs, runnerVars, attempt, procs, sent, order_params,
                   resolve_error, waited,
                   logVars, runOutcome>>

\* child.expect(EOF) and the classification of the output
execute_order_completion ==
    /\ pc = "eo_completion"
    /\ IF child = "exited"
       THEN \* end of output was already seen: the wait returns at once
            /\ \E out \in Outputs :
                  /\ output' = out
                  /\ result' = completed_result(out)
            /\ outcome' = "Completed"
            /\ pc' = "eo_finally"
            /\ UNCHANGED <<child, exc, raisedIn>>
       ELSE \/ \* end of output arrives in time
               /\ child' = "exited"
               /\ \E out \in Outputs :
                     /\ output' = out
                     /\ result' = completed_result(out)
               /\ outcome' = "Completed"
               /\ pc' = "eo_finally"
               /\ UNCHANGED <<exc, raisedIn>>
            \/ \* the completion timeout elapses
               /\ result' = "False"
               /\ outcome' = "TimedOut"
               /\ raisedIn' = raisedIn \cup {<<"completion", "TIMEOUT">>}
               /\ pc' = "eo_finally"
               /\ UNCHANGED <<child, exc, output>>
            \/ \* the wait fails otherwise
               /\ Caught("completion", "Failed")
               /\ UNCHANGED <<child, exc, output>>
            \/ \* Ctrl-C during the wait
               /\ Interrupted("completion")
               /\ UNCHANGED <<child, result, output>>
    /\ UNCHANGED <<inputs, runnerVars, attempt, procs, sent, order_params,
                   resolve_error, waited,
                   logVars, runOutcome>>

\* variant: the close is the last statement of the try body, so it only
\* runs on the path that returns True
execute_order_finally_success_only ==
    /\ pc = "eo_finally"
    /\ IF child = "unbound" \/ result # "True"
       THEN UNCHANGED <<child, procs>>
       ELSE /\ child' = "closed"
            /\ procs' = procs - 1
    /\ pc' = "es_tally"
    /\ UNCHANGED <<inputs, runnerVars, attempt, result, exc, sent,
                   outcome, raisedIn, order_params,
                   resolve_error, waited, output, logVars,
                   runOutcome>>

\* variant: no finally clause, the handle is dropped without a close
execute_order_finally_no_close ==
    /\ pc = "eo_finally"
    /\ pc' = "es_tally"
    /\ UNCHANGED <<inputs, runnerVars, attempt, child, procs,
                   result, exc, sent, outcome, raisedIn, order_params,
                   resolve_error, waited,
                   output, logVars, runOutcome>>

\* the finally clause: child.close(force=True); an unbound child raises
\* NameError, which is swallowed.  Control then returns to the caller.
execute_order_finally ==
    /\ pc = "eo_finally"
    /\ IF child = "unbound"
       THEN UNCHANGED <<child, procs>>
       ELSE /\ child' = "closed"
            /\ procs' = procs - 1
    /\ pc' = "es_tally"
    /\ UNCHANGED <<inputs, runnerVars, attempt, result, exc, sent,
                   outcome, raisedIn, order_params,
                   resolve_error, waited, output, logVars,
                   runOutcome>>

\* ------------------------------------------------------- specifications
Next ==
    \/ main
    \/ run_start
    \/ run_while
    \/ execute_strategy_for
    \/ execute_order_wait_before
    \/ execute_order_resolve
    \/ execute_order_spawn
    \/ execute_order_secret
    \/ execute_order_confirm
    \/ execute_order_completion
    \/ execute_order_finally
    \/ execute_strategy_tally
    \/ execute_strategy_sleep
    \/ run_after
    \/ run_sleep

Spec == Init /\ [][Next]_vars

\* the thread keeps running: every sleep and every wait has a timeout
FairSpec == Spec /\ WF_vars(Next)

\* ---------------------------------------- the resolver, order by order
\* an optional key of an order description: absent, or present with a
\* value of Vals
OptField(k, Vals) == {<<>>} \cup {k :> v : v \in Vals}

\* the keys every order of a strategy file carries
BaseOrder(a, p) ==
    [name |-> "Probe", action |-> a, pair |-> p, wallet |-> "trader_1"]

\* USD amounts and prices an order may carry (0, 1.25, -1.50), and an
\* exact-unit value that is the conversion of none of them
AmountValues == {Amount(0, 0), Amount(1, 25), -Amount(1, 50)}
UnitValues == {7}

\* orders that vary the action and the four boolean overrides
FlagOrders ==
    {BaseOrder(a, "ETH_USD") @@ l @@ n @@ m @@ g :
        a \in ActionKeys \cup {"teleport"},
        l \in OptField("is_long", BOOLEAN),
        n \in OptField("is_increase", BOOLEAN),
        m \in OptField("is_market", BOOLEAN),
        g \in OptField("can_execute_above_price", BOOLEAN)}

\* orders that vary the ten amount fields
AmountOrders ==
    {BaseOrder("market_open_long", p) @@ su @@ sa @@ cu @@ ca @@ pu @@ pa
                                      @@ lu @@ la @@ tu @@ ta :
        p \in PairKeys,
        su \in OptField("size_units", UnitValues),
        sa \in OptField("size_usd", AmountValues),
        cu \in OptField("collateral_units", UnitValues),
        ca \in OptField("collateral_usd", AmountValues),
        pu \in OptField("price_units", UnitValues),
        pa \in OptField("price", AmountValues),
        lu \in OptField("stop_loss_units", UnitValues),
        la \in OptField("stop_loss", AmountValues),
        tu \in OptField("take_profit_units", UnitValues),
        ta \in OptField("take_profit", AmountValues)}

\* amounts to convert: 0, 2.01 and 100
ConversionValues == {Amount(0, 0), Amount(2, 1), Amount(100, 0)}

\* orders that carry one amount field
ConversionOrders ==
    {BaseOrder("market_open_long", p) @@ (k :> v) :
        p \in PairKeys,
        k \in {"size_usd", "collateral_usd", "price", "stop_loss",
               "take_profit"},
        v \in ConversionValues}

\* raw parameter blocks ("custom_parameters") in which every key is
\* present or absent
PartialBlocks ==
    {su @@ cu @@ pu @@ l @@ n @@ m @@ lu @@ tu @@ g :
        su \in OptField("size_units", {11}),
        cu \in OptField("collateral_units", {12}),
        pu \in OptField("price_units", {13}),
        l \in OptField("is_long", {TRUE}),
        n \in OptField("is_increase", {FALSE}),
        m \in OptField("is_market", {TRUE}),
        lu \in OptField("stop_loss_units", {14}),
        tu \in OptField("take_profit_units", {15}),
        g \in OptField("can_execute_above_price", {FALSE})}

\* raw orders that vary the keys of the block
PartialRawOrders ==
    {BaseOrder("custom", "ETH_USD") @@ [custom_parameters |-> b] :
        b \in PartialBlocks}

\* two complete raw parameter blocks
CompleteBlocks ==
    {[size_units |-> 11, collateral_units |-> 12, price_units |-> 13,
      is_long |-> TRUE, is_increase |-> FALSE, is_market |-> TRUE,
      stop_loss_units |-> 14, take_profit_units |-> 15,
      can_execute_above_price |-> FALSE],
     [size_units |-> 21, collateral_units |-> 22, price_units |-> 23,
      is_long |-> FALSE, is_increase |-> TRUE, is_market |-> FALSE,
      can_execute_above_price |-> TRUE]}

\* raw orders that vary everything but the block: the action, top-level
\* amounts and units, top-level flag overrides and the pair
FramedRawOrders ==
    {[name |-> "Probe", pair |-> p, wallet |-> "trader_1",
      custom_parameters |-> b] @@ a @@ su @@ sa @@ la @@ l @@ g :
        p \in PairKeys,
        b \in CompleteBlocks,
        a \in OptField("action",
                       {"market_open_long", "limit_close_short", "teleport"}),
        su \in OptField("size_units", UnitValues),
        sa \in OptField("size_usd", {Amount(1, 25)}),
        la \in OptField("stop_loss", {Amount(1, 25)}),
        l \in OptField("is_long", BOOLEAN),
        g \in OptField("can_execute_above_price", BOOLEAN)}

\* execute_order has been entered on the only order of a one-cycle
\* strategy and stands before create_order_parameters
ResolveInit ==
    /\ \E o \in FlagOrders \cup AmountOrders \cup ConversionOrders
                 \cup PartialRawOrders \cup FramedRawOrders :
          /\ orders = <<o>>
          /\ auto_calculate_execution_guard \in
                 IF o \in FlagOrders \cup FramedRawOrders
                 THEN BOOLEAN ELSE {TRUE}
    /\ cycles = 1
    /\ confirmation_attempts = 0
    /\ network = "testnet"
    /\ default_strategy = "basic_cycle"
    /\ pc = "eo_resolve"
    /\ cycle_count = 1
    /\ i = 1
    /\ success_count = 0
    /\ attempt = 0
    /\ child = "unbound"
    /\ procs = 0
    /\ result = "none"
    /\ exc = "none"
    /\ sent = <<>>
    /\ outcome = "none"
    /\ raisedIn = {}
    /\ order_params = <<>>
    /\ resolve_error = <<>>
    /\ waited = 0
    /\ output = <<>>
    /\ invoked = <<<<1, 1>>>>
    /\ failed = {}
    /\ orderSleeps = 0
    /\ cycleSleeps = 0
    /\ runOutcome = "running"

ResolveNext == execute_order_resolve

ResolveSpec == ResolveInit /\ [][ResolveNext]_vars

\* ------------------------------- strategies with keys no table knows
\* an order without delay whose pair key is in no table
UnknownPair ==
    [name |-> "Nowhere", action |-> "limit_open_long",
     pair |-> "DOGE_USD", wallet |-> "trader_2"]

\* an order without delay whose action is no key of action_map
UnknownAction ==
    [name |-> "Teleport", action |-> "teleport",
     pair |-> "ETH_USD", wallet |-> "trader_1"]

\* two cycles over a strategy of orders with and without unknown keys
\* and actions
LookupInit ==
    /\ cycles = 2
    /\ orders \in SeqsUpTo({DelayedClose, UnknownWallet, UnknownPair,
                             UnknownAction}, MaxOrders)
    /\ confirmation_attempts = 1
    /\ network = "testnet"
    /\ default_strategy = "basic_cycle"
    /\ auto_calculate_execution_guard = TRUE
    /\ pc = "main"
    /\ cycle_count = 0
    /\ i = 0
    /\ success_count = 0
    /\ attempt = 0
    /\ child = "unbound"
    /\ procs = 0
    /\ result = "none"
    /\ exc = "none"
    /\ sent = <<>>
    /\ outcome = "none"
    /\ raisedIn = {}
    /\ order_params = <<>>
    /\ resolve_error = <<>>
    /\ waited = 0
    /\ output = <<>>
    /\ invoked = <<>>
    /\ failed = {}
    /\ orderSleeps = 0
    /\ cycleSleeps = 0
    /\ runOutcome = "running"

LookupSpec == LookupInit /\ [][Next]_vars

TypeOK ==
    /\ pc \in {"main", "run_start", "run_while", "es_for", "eo_wait_before", "eo_resolve",
               "eo_spawn", "eo_secret", "eo_confirm", "eo_completion",
               "eo_finally", "es_tally", "es_sleep", "run_after",
               "run_sleep", "done"}
    /\ child \in {"unbound", "running", "exited", "closed"}
    /\ result \in {"none", "True", "False"}
    /\ exc \in {"none", "KeyboardInterrupt"}
    /\ procs \in 0..1


\* ------------------------------------------------------------ properties
\* the thread is inside execute_order
InOrder ==
    pc \in {"eo_wait_before", "eo_resolve", "eo_spawn", "eo_secret",
            "eo_confirm", "eo_completion", "eo_finally"}

\* execute_order has just handed control back to execute_strategy
Returned == pc = "es_tally"

\* some call of the given phases raised something of the given kinds
RaisedIn(phases, kinds) ==
    \E r \in raisedIn : r[1] \in phases /\ r[2] \in kinds

\* C1: whenever execute_order hands control back (by return or by a
\* propagating exception), a process it spawned has been closed with force
\* and no process is left open.
C1_TerminatedOnEveryExit ==
    Returned => child \in {"unbound", "closed"} /\ procs = 0

\* an order whose completion wait raised after the spawn has returned
C1_Witness ==
    /\ Returned
    /\ child = "closed"
    /\ <<"completion", "Exception">> \in raisedIn

\* C2: at most one process is open in every state, none is open outside
\* execute_order, and none is open when the next one is about to be spawned.
C2_AtMostOneProcess ==
    /\ procs <= 1
    /\ pc = "eo_spawn" => procs = 0
    /\ ~InOrder => procs = 0

\* a process is open for an order that follows a completed order
C2_Witness ==
    /\ pc = "eo_secret"
    /\ procs = 1
    /\ success_count >= 1
    /\ cycle_count >= 2

CycleCalls == SelectSeq(invoked, LAMBDA e : e[1] = cycle_count)

\* C4: when the for loop of execute_strategy ends, execute_order has been
\* called for every order of the list in list order, however many of them
\* returned False, and exactly the others were counted as successful.
C4_FailureDoesNotStopSequence ==
    /\ pc = "run_after" =>
          /\ CycleCalls = [k \in 1..Len(orders) |-> <<cycle_count, k>>]
          /\ success_count = Len(orders) - Cardinality(failed)
    /\ pc = "es_sleep" => i < Len(orders)

\* a cycle ended although its first order of two had failed
C4_Witness ==
    /\ pc = "run_after"
    /\ Len(orders) >= 2
    /\ 1 \in failed
    /\ success_count >= 1

\* C5: an order whose completion wait timed out returns False, and its
\* process has been closed.
C5_CompletionTimeoutFails ==
    Returned /\ outcome = "TimedOut" =>
        result = "False" /\ child = "closed" /\ procs = 0

\* an order whose completion wait timed out has returned
C5_Witness ==
    /\ Returned
    /\ outcome = "TimedOut"
    /\ <<"completion", "TIMEOUT">> \in raisedIn

\* C6 as stated: an order whose process ended during the secret or the
\* confirmation phase returns False.
C6_EarlyEndFails ==
    Returned /\ RaisedIn({"secret", "confirm"}, {"EOF"}) => result = "False"


\* C7: under the scheduling the code has (every sleep and wait ends),
\* every execution of execute_order hands control back, with the outcome
\* Completed, Failed or TimedOut unless a KeyboardInterrupt cut it short,
\* the confirmation loop makes at most confirmation_attempts iterations,
\* and a run with a cycle count other than -1 ends.
C7_NeverHangs ==
    /\ InOrder ~> Returned
    /\ (cycles # -1) ~> (pc = "done")
    /\ [](attempt <= confirmation_attempts)
    /\ [](Returned => \/ outcome \in {"Completed", "Failed", "TimedOut"}
                      \/ exc = "KeyboardInterrupt")

\* a run of two cycles over two orders has ended by leaving the loop
C7_Witness ==
    /\ pc = "done"
    /\ runOutcome = "returned"
    /\ cycles = 2
    /\ Len(orders) = 2
    /\ Len(invoked) = 4
    /\ confirmation_attempts >= 1
    /\ failed # {}

\* the calls a run of c cycles makes: cycle by cycle, in list order
ExpectedCalls(c) ==
    [k \in 1..(c * Len(orders)) |->
        <<((k - 1) \div Len(orders)) + 1, ((k - 1) % Len(orders)) + 1>>]

IsPrefix(s, t) ==
    /\ Len(s) <= Len(t)
    /\ \A k \in 1..Len(s) : s[k] = t[k]

\* C8: with cycles = c >= 0 the calls of execute_order made so far are
\* always an initial part of "order 1..n of cycle 1, ..., order 1..n of
\* cycle c", and they are exactly that sequence, n*c calls, when run
\* leaves its loop.
C8_ExactlyNTimesC ==
    cycles >= 0 =>
        /\ IsPrefix(invoked, ExpectedCalls(cycles))
        /\ pc = "done" /\ runOutcome = "returned"
               => invoked = ExpectedCalls(cycles)

\* two cycles over two orders, one of which failed, made four calls
C8_Witness ==
    /\ pc = "done"
    /\ runOutcome = "returned"
    /\ cycles = 2
    /\ invoked = <<<<1, 1>>, <<1, 2>>, <<2, 1>>, <<2, 2>>>>
    /\ Cardinality(failed) = 1

\* C9: the inter-order sleep is only entered after an order that is not
\* the last of the list, once per such order, so a cycle that ends has
\* slept n-1 times (0 times for n <= 1).
C9_InterOrderDelay ==
    /\ pc = "es_sleep" => i < Len(orders) /\ orderSleeps = i - 1
    /\ pc = "es_for" /\ i >= 1 => orderSleeps = IF i < Len(orders) THEN i ELSE i - 1
    /\ pc = "run_after" =>
          orderSleeps = IF Len(orders) <= 1 THEN 0 ELSE Len(orders) - 1

\* a cycle over two orders has ended after one inter-order sleep
C9_Witness ==
    /\ pc = "run_after"
    /\ Len(orders) = 2
    /\ orderSleeps = 1

\* C10: the inter-cycle sleep is only entered when another cycle follows;
\* a run of c >= 1 cycles that leaves its loop has slept c-1 times, and an
\* infinite run has slept once after every cycle it completed.
C10_InterCycleDelay ==
    /\ pc = "run_sleep" => MoreCycles /\ cycleSleeps = cycle_count - 1
    /\ pc = "done" /\ runOutcome = "returned" /\ cycles >= 1
           => cycleSleeps = cycles - 1
    /\ pc = "run_while" /\ cycles = -1 => cycleSleeps = cycle_count

\* a run of two cycles has ended after one inter-cycle sleep
C10_Witness ==
    /\ pc = "done"
    /\ runOutcome = "returned"
    /\ cycles = 2
    /\ cycleSleeps = 1
    /\ Len(invoked) >= 2

\* a KeyboardInterrupt was delivered to the order that is being executed
InterruptDelivered ==
    RaisedIn({"wait_before", "secret", "confirm", "completion"},
             {"KeyboardInterrupt"})

\* C11: once an external interrupt has been delivered while an order waits
\* (pre-order delay, secret prompt, confirmation prompt or completion), no
\* cycle after the current one is started: the cycle counter keeps the
\* value it had when the interrupt arrived.
C11_InterruptStopsLoop ==
    \A c \in 1..(MaxCycles + InfiniteCap) :
        [](InterruptDelivered /\ cycle_count = c => [](cycle_count = c))

\* the order that is next in the for loop has no "name" key
NextOrderNameless ==
    pc = "es_for" /\ i < Len(orders) /\ ~Has(orders[i + 1], "name")

\* C12: an error other than an interrupt raised inside a cycle (the
\* KeyError of an order without a name) is caught by run and ends the run:
\* the step that raises it leads to the end of run without a call of
\* execute_order, no process is open then, and no step follows it, so no
\* further order or cycle is executed and the cycle is not retried.
C12_ErrorHaltsLoop ==
    /\ [][NextOrderNameless =>
             pc' = "done" /\ runOutcome' = "halted" /\ invoked' = invoked]_vars
    /\ [](runOutcome = "halted" => pc = "done" /\ procs = 0)
    /\ [][runOutcome # "halted"]_vars

\* the second order of the first of two cycles raised: the run has ended
\* after one call, in its first cycle
C12_Witness ==
    /\ runOutcome = "halted"
    /\ cycles = 2
    /\ cycle_count = 1
    /\ Len(orders) = 2
    /\ invoked = <<<<1, 1>>>>

\* C13: an order whose completion wait reached end of output returns True
\* and raises nothing, whatever the output holds.
C13_CompletedIsSuccess ==
    Returned /\ outcome = "Completed" => result = "True" /\ exc = "none"

\* a completed order whose output holds neither marker has returned True
C13_Witness ==
    /\ Returned
    /\ outcome = "Completed"
    /\ output = <<"Error:", "rejected">>
    /\ ~has_marker(output)
    /\ result = "True"

\* C14: when the secret wait timed out, the secret is never sent and the
\* order goes on: right after the wait the thread is at the confirmation
\* loop with nothing sent, no result and no exception, and the order
\* returns False only if its completion wait raised.
C14_NoSecretPromptIsNoError ==
    <<"secret", "TIMEOUT">> \in raisedIn =>
        /\ \A k \in DOMAIN sent : sent[k] # password
        /\ pc \in {"eo_confirm", "eo_completion", "eo_finally", "es_tally"}
        /\ pc = "eo_confirm" /\ attempt = 0 =>
               /\ sent = <<>>
               /\ result = "none"
               /\ exc = "none"
               /\ outcome = "none"
               /\ child = "running"
        /\ pc \in {"eo_finally", "es_tally"} /\ result = "False" =>
               RaisedIn({"completion"}, {"Exception", "TIMEOUT"})

\* an order that saw no secret prompt answered a confirmation prompt,
\* completed and returned True
C14_Witness ==
    /\ Returned
    /\ <<"secret", "TIMEOUT">> \in raisedIn
    /\ sent = <<"\n">>
    /\ result = "True"

\* the wallet key or the pair key of the order is in no table
UnknownKey(o) == o.wallet \notin WalletKeys \/ o.pair \notin PairKeys

\* C15: an order with an unknown wallet key or pair key never gets a
\* process, returns False without raising, and the run goes on: the run is
\* never halted by it, and a cycle that reaches its end has called
\* execute_order for every order of the list and counted every order with
\* an unknown key as failed.
C15_UnknownKeyAbortsOrderOnly ==
    /\ (InOrder \/ Returned) /\ UnknownKey(CurrentOrder) =>
           /\ child = "unbound"
           /\ procs = 0
           /\ pc \in {"eo_wait_before", "eo_resolve", "eo_finally", "es_tally"}
           /\ exc = "none"
           /\ Returned => result = "False"
    /\ runOutcome # "halted"
    /\ pc = "run_after" =>
           /\ Len(CycleCalls) = Len(orders)
           /\ \A k \in DOMAIN orders : UnknownKey(orders[k]) => k \in failed

\* a cycle over an order with an unknown pair and a well-formed order has
\* ended: the first failed, the second succeeded
C15_Witness ==
    /\ pc = "run_after"
    /\ orders = <<UnknownPair, DelayedClose>>
    /\ failed = {1}
    /\ success_count = 1

\* C16: when the configured network or the configured default strategy is
\* in no table, the bot never gets past its construction: no order is
\* executed or resolved, no process is spawned, and the program ends
\* with exit status 1.
C16_ConfigErrorIsFatal ==
    network \notin NetworkKeys \/ default_strategy \notin StrategyKeys =>
        /\ pc \in {"main", "done"}
        /\ pc = "done" => runOutcome = "exit1"
        /\ invoked = <<>>
        /\ order_params = <<>>
        /\ procs = 0

\* the bot has exited over a default strategy that is in no table
C16_Witness ==
    /\ pc = "done"
    /\ runOutcome = "exit1"
    /\ network \in NetworkKeys
    /\ default_strategy \notin StrategyKeys
    /\ orders # <<>>

\* create_standard_order has returned the argument list of the order
Resolved == pc = "eo_spawn" /\ ~Has(CurrentOrder, "custom_parameters")

\* argument k of the list follows the precedence for its quantity: the
\* exact-unit field, else the amount field converted with the given
\* precision, else the given default
FollowsPrecedence(k, unitKey, amountKey, decimals, default) ==
    LET o == CurrentOrder
    IN  /\ Has(o, unitKey) => order_params[k] = <<"u64", o[unitKey]>>
        /\ ~Has(o, unitKey) /\ Has(o, amountKey) /\ o[amountKey] >= 0 =>
               order_params[k] = <<"u64", to_units(o[amountKey], decimals)>>
        /\ ~Has(o, unitKey) /\ ~Has(o, amountKey) =>
               order_params[k] = <<"u64", default>>

\* C17: on the derived path each of size, collateral, price, stop-loss and
\* take-profit is the exact-unit field when the order has one (whether or
\* not it also has the USD/price field), else the USD/price field (a valid,
\* that is non-negative, amount) converted with the precision of its
\* category, else the converted pair default for size, collateral and
\* price and zero for stop-loss and take-profit.
C17_AmountPrecedence ==
    Resolved =>
        LET pair_config == pairs[CurrentOrder.pair]
        IN  /\ FollowsPrecedence(2, "size_units", "size_usd",
                   network_config.size_decimals,
                   to_units(pair_config.default_size_usd,
                            network_config.size_decimals))
            /\ FollowsPrecedence(3, "collateral_units", "collateral_usd",
                   network_config.collateral_decimals,
                   to_units(pair_config.default_collateral_usd,
                            network_config.collateral_decimals))
            /\ FollowsPrecedence(4, "price_units", "price",
                   network_config.price_decimals,
                   to_units(pair_config.default_price,
                            network_config.price_decimals))
            /\ FollowsPrecedence(8, "stop_loss_units", "stop_loss",
                   network_config.price_decimals, 0)
            /\ FollowsPrecedence(9, "take_profit_units", "take_profit",
                   network_config.price_decimals, 0)

\* an order with size_units 7 and size_usd 1.25, with stop_loss 1.25 and
\* no stop_loss_units, and with no price field at all was resolved to
\* size 7, stop-loss 12 (price precision 1) and the default price of its
\* pair
C17_Witness ==
    /\ Resolved
    /\ Has(CurrentOrder, "size_units") /\ Has(CurrentOrder, "size_usd")
    /\ CurrentOrder.size_usd = Amount(1, 25)
    /\ order_params[2] = <<"u64", 7>>
    /\ ~Has(CurrentOrder, "stop_loss_units") /\ Has(CurrentOrder, "stop_loss")
    /\ CurrentOrder.stop_loss = Amount(1, 25)
    /\ order_params[8] = <<"u64", 12>>
    /\ ~Has(CurrentOrder, "price_units") /\ ~Has(CurrentOrder, "price")
    /\ CurrentOrder.pair = "BTC_USD"
    /\ order_params[4] = <<"u64", 500000>>

\* the flags of the resolved argument list: <<is_long, is_increase,
\* is_market>>
ResolvedFlags ==
    <<order_params[5] = <<"bool", "true">>,
      order_params[6] = <<"bool", "true">>,
      order_params[7] = <<"bool", "true">>>>

\* the three flag arguments are well-formed booleans
FlagsWellFormed ==
    \A k \in {5, 6, 7, 10} :
        order_params[k] \in {<<"bool", "true">>, <<"bool", "false">>}

\* the default triple the action table documents for each action
DocumentedDefault(a) ==
    CASE a = "market_open_long"   -> <<TRUE, TRUE, TRUE>>
      [] a = "market_open_short"  -> <<FALSE, TRUE, TRUE>>
      [] a = "limit_open_long"    -> <<TRUE, TRUE, FALSE>>
      [] a = "limit_open_short"   -> <<FALSE, TRUE, FALSE>>
      [] a = "market_close_long"  -> <<TRUE, FALSE, TRUE>>
      [] a = "market_close_short" -> <<FALSE, FALSE, TRUE>>
      [] a = "limit_close_long"   -> <<TRUE, FALSE, FALSE>>
      [] a = "limit_close_short"  -> <<FALSE, FALSE, FALSE>>
      [] a = "add_to_position"    -> <<TRUE, TRUE, FALSE>>
      [] a = "add_collateral"     -> <<TRUE, TRUE, TRUE>>
      [] a = "partial_close"      -> <<TRUE, FALSE, FALSE>>
      [] a = "full_close"         -> <<TRUE, FALSE, TRUE>>
      [] a = "custom"             -> <<TRUE, TRUE, FALSE>>

FlagKeys == <<"is_long", "is_increase", "is_market">>

\* C18: an order of any of the thirteen actions that supplies none of
\* is_long, is_increase, is_market is resolved to the documented default
\* triple of its action.
C18_DefaultFlags ==
    Resolved /\ (\A f \in 1..3 : ~Has(CurrentOrder, FlagKeys[f])) =>
        /\ FlagsWellFormed
        /\ ResolvedFlags = DocumentedDefault(CurrentOrder.action)

\* full_close without overrides was resolved to (true, false, true)
C18_Witness ==
    /\ Resolved
    /\ CurrentOrder.action = "full_close"
    /\ \A f \in 1..3 : ~Has(CurrentOrder, FlagKeys[f])
    /\ ResolvedFlags = <<TRUE, FALSE, TRUE>>

\* C19: for every action, each flag the order supplies is resolved to the
\* supplied value and each flag it does not supply to the default of the
\* action, whatever the other flags are.
C19_OverridesAreIndependent ==
    Resolved =>
        \A f \in 1..3 :
            ResolvedFlags[f] =
                IF Has(CurrentOrder, FlagKeys[f])
                THEN CurrentOrder[FlagKeys[f]]
                ELSE DocumentedDefault(CurrentOrder.action)[f]

\* market_open_long with is_increase = false alone was resolved to
\* (true, false, true)
C19_Witness ==
    /\ Resolved
    /\ CurrentOrder.action = "market_open_long"
    /\ Has(CurrentOrder, "is_increase") /\ ~CurrentOrder.is_increase
    /\ ~Has(CurrentOrder, "is_long") /\ ~Has(CurrentOrder, "is_market")
    /\ ResolvedFlags = <<TRUE, FALSE, TRUE>>

\* C20: when the guard is calculated, (is_increase, is_long, guard) is one
\* of (true, true, false), (true, false, true), (false, true, true),
\* (false, false, false), for either value of is_market.
C20_GuardTable ==
    /\ Resolved
    /\ auto_calculate_execution_guard
    /\ ~Has(CurrentOrder, "can_execute_above_price")
    => <<ResolvedFlags[2], ResolvedFlags[1],
         order_params[10] = <<"bool", "true">>>> \in
           {<<TRUE, TRUE, FALSE>>, <<TRUE, FALSE, TRUE>>,
            <<FALSE, TRUE, TRUE>>, <<FALSE, FALSE, FALSE>>}

\* a limit close of a long position got the calculated guard true
C20_Witness ==
    /\ Resolved
    /\ auto_calculate_execution_guard
    /\ ~Has(CurrentOrder, "can_execute_above_price")
    /\ ResolvedFlags = <<TRUE, FALSE, FALSE>>
    /\ order_params[10] = <<"bool", "true">>

\* ------------------------------------------------ the raw-override path
\* the order in hand carries a raw parameter block and a known wallet,
\* pair and name, and create_order_parameters has been called on it
RawTried ==
    /\ pc \in {"eo_spawn", "eo_finally"}
    /\ Has(CurrentOrder, "custom_parameters")
    /\ lookup_error(CurrentOrder, "wallet", WalletKeys) = <<>>
    /\ lookup_error(CurrentOrder, "pair", PairKeys) = <<>>
    /\ Has(CurrentOrder, "name")

\* the required fields the raw block of the order in hand lacks
MissingFields ==
    {required_fields[k] : k \in
        {m \in 1..Len(required_fields) :
            ~Has(CurrentOrder.custom_parameters, required_fields[m])}}

\* C21: resolving a raw-override order whose block lacks a required field
\* fails (the order returns False, nothing is resolved) with a ValueError
\* that names a field the block lacks, the first of them in the order of
\* the list; a block that has all seven resolves, with stop_loss_units and
\* take_profit_units zero when the block lacks them.
C21_MissingRawFieldNamed ==
    RawTried =>
        LET block == CurrentOrder.custom_parameters
        IN  IF MissingFields # {}
            THEN /\ pc = "eo_finally"
                 /\ result = "False"
                 /\ order_params = <<>>
                 /\ \E k \in 1..Len(required_fields) :
                       /\ resolve_error =
                             <<"ValueError",
                               "Custom order missing required field",
                               required_fields[k]>>
                       /\ required_fields[k] \in MissingFields
                       /\ \A m \in 1..(k - 1) :
                             required_fields[m] \notin MissingFields
            ELSE /\ pc = "eo_spawn"
                 /\ resolve_error = <<>>
                 /\ ~Has(block, "stop_loss_units") =>
                       order_params[8] = <<"u64", 0>>
                 /\ ~Has(block, "take_profit_units") =>
                       order_params[9] = <<"u64", 0>>

\* a block that lacks is_market and can_execute_above_price failed naming
\* is_market
C21_Witness ==
    /\ RawTried
    /\ MissingFields = {"is_market", "can_execute_above_price"}
    /\ resolve_error =
          <<"ValueError", "Custom order missing required field", "is_market">>

\* the action of the order is no key of action_map, and nothing else is
\* wrong with the order
UnknownActionOnly(o) ==
    /\ ~Has(o, "custom_parameters")
    /\ ~UnknownKey(o)
    /\ Has(o, "action")
    /\ o.action \notin ActionKeys

\* C22: an order whose action is not in the action set fails with a
\* ValueError naming the action, which execute_order turns into the result
\* False: no process is spawned for it, nothing propagates, the run is
\* not halted, and a cycle that reaches its end has called execute_order
\* for every order of the list and counted that order as failed.
C22_UnknownActionAbortsOrderOnly ==
    /\ (InOrder \/ Returned) /\ UnknownActionOnly(CurrentOrder) =>
           /\ child = "unbound"
           /\ procs = 0
           /\ order_params = <<>>
           /\ pc \in {"eo_wait_before", "eo_resolve", "eo_finally", "es_tally"}
           /\ exc = "none"
           /\ Returned =>
                 /\ result = "False"
                 /\ resolve_error =
                       <<"ValueError", "Unknown action", CurrentOrder.action>>
    /\ runOutcome # "halted"
    /\ pc = "run_after" =>
           /\ Len(CycleCalls) = Len(orders)
           /\ \A k \in DOMAIN orders :
                 UnknownActionOnly(orders[k]) => k \in failed

\* a cycle over an order with an unknown action and a well-formed order
\* has ended: the first failed, the second succeeded
C22_Witness ==
    /\ pc = "run_after"
    /\ orders = <<UnknownAction, DelayedClose>>
    /\ failed = {1}
    /\ success_count = 1

\* the pairs of exact-unit key and amount key of the five quantities
QuantityKeys ==
    {<<"size_units", "size_usd">>,
     <<"collateral_units", "collateral_usd">>,
     <<"price_units", "price">>,
     <<"stop_loss_units", "stop_loss">>,
     <<"take_profit_units", "take_profit">>}

\* the order is on the derived path and a quantity of it would have to be
\* converted from a negative amount
ConvertsNegative(o) ==
    /\ ~Has(o, "custom_parameters")
    /\ \E q \in QuantityKeys :
          ~Has(o, q[1]) /\ Has(o, q[2]) /\ o[q[2]] < 0

\* C23: an order one of whose quantities has to be converted from a
\* negative amount is never resolved: execute_order does not reach the
\* spawn with an argument list for it.
C23_NegativeAmountRejected ==
    (InOrder \/ Returned) /\ ConvertsNegative(CurrentOrder) =>
        /\ pc # "eo_spawn"
        /\ order_params = <<>>

\* floor(amount * 10^decimals) for a scaled amount
toUnits(amount, decimals) ==
    IF decimals >= AmountDigits
    THEN amount * Pow10(decimals - AmountDigits)
    ELSE amount \div Pow10(AmountDigits - decimals)

\* argument k of the list is the floor of the amount field, when the
\* order has that field (not negative) and not the exact-unit field
ConvertedByFloor(k, unitKey, amountKey, decimals) ==
    LET o == CurrentOrder
    IN  ~Has(o, unitKey) /\ Has(o, amountKey) /\ o[amountKey] >= 0 =>
            order_params[k] = <<"u64", toUnits(o[amountKey], decimals)>>

\* C24: every field derived from an amount is floor(amount * 10^decimals),
\* with size_decimals for size, collateral_decimals for collateral and
\* price_decimals for price, stop-loss and take-profit; in particular 0
\* converts to 0 and size_usd = 100 at size precision 6 to 100000000.
C24_ConversionIsFloor ==
    Resolved =>
        /\ ConvertedByFloor(2, "size_units", "size_usd",
                            network_config.size_decimals)
        /\ ConvertedByFloor(3, "collateral_units", "collateral_usd",
                            network_config.collateral_decimals)
        /\ ConvertedByFloor(4, "price_units", "price",
                            network_config.price_decimals)
        /\ ConvertedByFloor(8, "stop_loss_units", "stop_loss",
                            network_config.price_decimals)
        /\ ConvertedByFloor(9, "take_profit_units", "take_profit",
                            network_config.price_decimals)

\* C25: on the derived path the guard token is the order's own
\* can_execute_above_price when the order has that field; otherwise, with
\* auto-calculation enabled, the table value for the resolved is_long and
\* is_increase (true exactly when one of them is true and the other is
\* not); otherwise true.
C25_GuardPrecedence ==
    Resolved =>
        LET o == CurrentOrder
            is_long == ResolvedFlags[1]
            is_increase == ResolvedFlags[2]
            guard == order_params[10] = <<"bool", "true">>
        IN  /\ FlagsWellFormed
            /\ order_params[10] \in {<<"bool", "true">>, <<"bool", "false">>}
            /\ IF Has(o, "can_execute_above_price")
               THEN guard = o.can_execute_above_price
               ELSE IF auto_calculate_execution_guard
                    THEN guard = (is_long # is_increase)
                    ELSE guard

\* an opening long order that says can_execute_above_price = true kept it
\* although the calculated guard, which is enabled, would be false
C25_Witness ==
    /\ Resolved
    /\ auto_calculate_execution_guard
    /\ Has(CurrentOrder, "can_execute_above_price")
    /\ CurrentOrder.can_execute_above_price
    /\ ResolvedFlags[1] /\ ResolvedFlags[2]
    /\ order_params[10] = <<"bool", "true">>

\* ------------------------------------------------------------ the driver
\* C26: an interrupt is never raised inside a wait of an order, and an
\* order that was entered is not cut short: execute_order hands control
\* back with a boolean result and one of its own terminal outcomes, never
\* with a propagating KeyboardInterrupt.
C26_InterruptOnlyBetweenOrders ==
    /\ ~RaisedIn({"wait_before", "secret", "confirm", "completion"},
                 {"KeyboardInterrupt"})
    /\ Returned =>
           /\ exc = "none"
           /\ result \in {"True", "False"}
           /\ outcome \in {"Completed", "TimedOut", "Failed"}

\* the bare responses (sendline of a line terminator alone) of this order
Responses == SelectSeq(sent, LAMBDA arg : arg = "\n")

SecretPhaseOver == pc = "eo_confirm" /\ attempt = 0

\* the secret wait of the order in hand matched a prompt
SecretPromptMatched ==
    ~RaisedIn({"secret"}, {"TIMEOUT", "EOF", "KeyboardInterrupt"})

\* C28: when the secret wait matched a prompt, what the secret phase wrote
\* to the process is the value of SUPRA_CLI_PASSWORD as it is, followed by
\* a line separator, and after it nothing but line terminators; when a
\* send raised, what was written is that much or nothing.
C28_SecretSentVerbatim ==
    SecretPhaseOver /\ SecretPromptMatched =>
        \/ written(sent) = <<SUPRA_CLI_PASSWORD, linesep, "\n", linesep>>
        \/ /\ <<"send", "Exception">> \in raisedIn
           /\ written(sent) \in {<<>>, <<SUPRA_CLI_PASSWORD, linesep>>}

\* a secret prompt matched, both sends succeeded and the secret was written
C28_Witness ==
    /\ SecretPhaseOver
    /\ raisedIn = {}
    /\ Len(written(sent)) = 4
    /\ written(sent)[1] = SUPRA_CLI_PASSWORD

\* C29: within one order the secret wait is entered only from the spawn,
\* the confirmation loop only from the secret wait (or from its own
\* previous attempt), the completion wait only from the confirmation loop,
\* after attempt number confirmation_attempts; the secret wait and the
\* completion wait are made once and left forward; and once the order has
\* an outcome nothing more is sent and only the cleanup and the return
\* follow.
C29_PhaseOrder ==
    [][/\ pc' = "eo_secret" => pc = "eo_spawn"
       /\ pc = "eo_secret" => pc' = "eo_confirm" /\ attempt' = 0
       /\ pc' = "eo_confirm" => pc \in {"eo_secret", "eo_confirm"}
       /\ pc = "eo_confirm" => pc' \in {"eo_confirm", "eo_completion"}
       /\ pc' = "eo_completion" =>
              pc = "eo_confirm" /\ attempt' = confirmation_attempts
       /\ pc = "eo_completion" => pc' = "eo_finally" /\ outcome' # "none"
       /\ pc \in {"eo_secret", "eo_confirm", "eo_completion"} =>
              child \in {"running", "exited"}
       /\ InOrder /\ outcome # "none" =>
              /\ sent' = sent
              /\ pc = "eo_finally"
              /\ pc' = "es_tally"]_vars

\* an order went through every phase with every prompt matched: the
\* secret, then two responses, then the completion
C29_Witness ==
    /\ Returned
    /\ raisedIn = {}
    /\ confirmation_attempts = 2
    /\ attempt = 2
    /\ sent = <<password, "\n", "\n", "\n">>
    /\ outcome = "Completed"

\* create_custom_order has returned the argument list of the order
RawResolved == pc = "eo_spawn" /\ Has(CurrentOrder, "custom_parameters")

\* the token of a boolean of the raw block
RawFlag(value) == <<"bool", IF value THEN "true" ELSE "false">>

\* C30: the size, collateral, price, flag, stop-loss, take-profit and
\* guard tokens of a raw-override order are the values of its raw block
\* (zero for a stop-loss or take-profit the block lacks), whatever the
\* action, the top-level amounts, units and flag overrides, the pair and
\* the auto-guard setting of the order are; and every raw order with a
\* complete block is resolved, whatever its action is.
C30_RawBlockOnly ==
    /\ RawTried /\ MissingFields = {} => RawResolved
    /\ RawResolved =>
           LET block == CurrentOrder.custom_parameters
           IN  /\ Len(order_params) = 11
               /\ order_params[2] = <<"u64", block.size_units>>
               /\ order_params[3] = <<"u64", block.collateral_units>>
               /\ order_params[4] = <<"u64", block.price_units>>
               /\ order_params[5] = RawFlag(block.is_long)
               /\ order_params[6] = RawFlag(block.is_increase)
               /\ order_params[7] = RawFlag(block.is_market)
               /\ order_params[8] =
                      <<"u64", IF Has(block, "stop_loss_units")
                               THEN block.stop_loss_units ELSE 0>>
               /\ order_params[9] =
                      <<"u64", IF Has(block, "take_profit_units")
                               THEN block.take_profit_units ELSE 0>>
               /\ order_params[10] = RawFlag(block.can_execute_above_price)

\* a raw order with an unknown action, a top-level size_units, size_usd,
\* stop_loss, is_long and can_execute_above_price, and auto-guard on, was
\* resolved to the values of its block
C30_Witness ==
    /\ RawResolved
    /\ auto_calculate_execution_guard
    /\ Has(CurrentOrder, "action") /\ CurrentOrder.action = "teleport"
    /\ Has(CurrentOrder, "size_units") /\ Has(CurrentOrder, "size_usd")
    /\ Has(CurrentOrder, "stop_loss")
    /\ Has(CurrentOrder, "is_long") /\ ~CurrentOrder.is_long
    /\ Has(CurrentOrder, "can_execute_above_price")
    /\ CurrentOrder.can_execute_above_price
    /\ CurrentOrder.pair = "BTC_USD"
    /\ order_params[2] = <<"u64", 11>>
    /\ order_params[5] = <<"bool", "true">>
    /\ order_params[8] = <<"u64", 14>>
    /\ order_params[10] = <<"bool", "false">>

\* the pre-order delay the order configures, when it is positive
PositiveDelay(o) == Has(o, "wait_before") /\ o.wait_before > 0

\* C31: for an order with a positive wait_before, no process exists while
\* the delay is elapsing, and the resolution, the spawn and every later
\* phase of the order are reached only after time.sleep has returned from
\* the whole delay; an order whose delay was cut never gets a process.
C31_DelayBeforeSpawn ==
    (InOrder \/ Returned) /\ PositiveDelay(CurrentOrder) =>
        /\ pc = "eo_wait_before" =>
               waited = 0 /\ child = "unbound" /\ procs = 0
        /\ waited \in {0, CurrentOrder.wait_before}
        /\ waited < CurrentOrder.wait_before =>
               /\ child = "unbound"
               /\ procs = 0
               /\ pc \in {"eo_wait_before", "eo_finally", "es_tally"}
        /\ child # "unbound" => waited = CurrentOrder.wait_before

\* the process of an order with a delay of 10 seconds is running, after
\* the 10 seconds
C31_Witness ==
    /\ pc = "eo_secret"
    /\ CurrentOrder = DelayedClose
    /\ child = "running"
    /\ procs = 1
    /\ waited = 10

\* the sendline calls of this order whose argument was the secret
SecretSends == SelectSeq(sent, LAMBDA arg : arg = password)

\* C32: within one order the secret is the argument of at most one
\* sendline, the first of the order, made in the secret phase after the
\* secret wait matched a prompt; when that wait timed out, saw the end of
\* the output or was interrupted the secret is never sent; and no step of
\* the confirmation loop, the completion wait or the cleanup sends it.
C32_SecretSentOnceAfterPrompt ==
    /\ [](/\ Len(SecretSends) <= 1
          /\ SecretSends # <<>> =>
                /\ sent[1] = password
                /\ SecretPromptMatched
                /\ pc \in {"eo_confirm", "eo_completion", "eo_finally",
                           "es_tally"}
          /\ ~SecretPromptMatched => SecretSends = <<>>)
    /\ [][pc # "eo_secret" => Len(SecretSends') <= Len(SecretSends)]_vars

\* the secret was sent once, a confirmation prompt was answered, and the
\* order stands before its completion wait
C32_Witness ==
    /\ pc = "eo_completion"
    /\ confirmation_attempts = 1
    /\ raisedIn = {}
    /\ sent = <<password, "\n", "\n">>
    /\ Len(SecretSends) = 1

====
